---- MODULE Spec2Model ----
(***************************************************************************)
(* Model of the deployment CLI of dynamo.sdk                               *)
(* (deploy/dynamo/sdk/src/dynamo/sdk/cli/deployment.py).                   *)
(*                                                                         *)
(* One behaviour is one invocation of create_deployment.  The calls into   *)
(* the cloud client (create, wait_until_ready), into                       *)
(* DeploymentConfigParameters.verify and into resolve_service_config are   *)
(* the points where the environment answers; every answer the code tells   *)
(* apart (normal return, BentoMLException, any other exception) is drawn   *)
(* nondeterministically.                                                   *)
(*                                                                         *)
(* Text is a sequence of tokens.  A token is one character, except the     *)
(* two literals the code searches for, which are kept atomic:              *)
(*   "a"   a deployment-name character                                     *)
(*   "q"   the double quote  "                                             *)
(*   "bs"  the backslash     \                                             *)
(*   "AE"  the text `already exists` not preceded by a space               *)
(*   "SAE" the text ` already exists` (with its leading space)             *)
(* bento and dev are passed through to the request untouched and are not   *)
(* varied.                                                                 *)
(***************************************************************************)
EXTENDS Integers, Sequences, FiniteSets, TLC

VARIABLES
    name,             \* parameter name (NoName models None)
    config_file,      \* parameter config_file
    args,             \* parameter args, the extra command-line tokens
    wait,             \* parameter wait
    timeout,          \* parameter timeout
    pc,               \* position in create_deployment
    service_configs,  \* result of resolve_service_config
    config_params,    \* the DeploymentConfigParameters built, or NoParams
    deployment,       \* the handle returned by create, or NoDeployment
    calls,            \* calls issued on _cloud_client / the handle, in order
    stdout,           \* lines written with print()
    spinner_log,      \* lines written with spinner.log()
    err,              \* the BentoMLException caught, or NoErr
    raised,           \* class of an exception leaving the function, or "none"
    exc,              \* the BentoMLException get/delete/list raise, or NoExc
    retcode,          \* result of wait_until_ready, NoRetcode before it
    exit_code,        \* argument of sys.exit, NoExit while running
    returned,         \* value returned to the caller, or NoDeployment
    failed_at         \* the call that ended the run abnormally, or "none"

vars == <<name, config_file, args, wait, timeout, pc, service_configs,
          config_params, deployment, calls, stdout, spinner_log, err, raised,
          exc, retcode, exit_code, returned, failed_at>>

----------------------------------------------------------------------------
(* Bounds *)

MaxMsgLen == 5
MaxNameLen == 1
MaxRetcode == 2

(* Program constants *)

DefaultTimeout == 3600

\* err.error_code, an HTTPStatus member
UNAUTHORIZED == "UNAUTHORIZED"
INTERNAL_SERVER_ERROR == "INTERNAL_SERVER_ERROR"

----------------------------------------------------------------------------
(* Text *)

Alphabet == {"a", "q", "bs", "AE", "SAE"}

SeqsUpTo(S, n) == UNION {[1..k -> S] : k \in 0..n}

Msgs == SeqsUpTo(Alphabet, MaxMsgLen)

Names == SeqsUpTo({"a"}, MaxNameLen) \ {<<>>}

NoName == <<"None">>

NoErr == [msg |-> <<>>, code |-> "none"]
NoExit == 0 - 1
NoRetcode == 0 - 1

\* a BentoMLException raised by get, delete or list: the template of its
\* message, the action the template names and the text of the error it embeds
Exc(tmpl, action, arg) == [tmpl |-> tmpl, action |-> action, arg |-> arg]

NoExc == Exc("none", "", <<>>)
NoParams == [name |-> <<>>, envs |-> <<>>, cli |-> FALSE]
NoDeployment == [name |-> <<>>, cluster |-> "none"]

Timeouts == {1, DefaultTimeout}

ErrorCodes == {UNAUTHORIZED, INTERNAL_SERVER_ERROR}

Last(s) == s[Len(s)]

----------------------------------------------------------------------------
(* The text tests of the except block, lines 116-119 *)

\* "already exists" in error_msg
AlreadyExistsIn(msg) == \E i \in 1..Len(msg) : msg[i] \in {"AE", "SAE"}

\* the first quote after position i, 0 if there is none
NextQuote(msg, i) ==
    LET js == {j \in (i + 1)..Len(msg) : msg[j] = "q"}
    IN  IF js = {} THEN 0 ELSE CHOOSE j \in js : \A k \in js : j <= k

\* r'"([^"]+?)(?:\\+)?" already exists' matches starting at position i:
\* an opening quote, at least one non-quote character, the closing quote,
\* and ` already exists` right after it
MatchAt(msg, i) ==
    /\ i \in 1..Len(msg)
    /\ msg[i] = "q"
    /\ LET j == NextQuote(msg, i)
       IN  /\ j > i + 1
           /\ j < Len(msg)
           /\ msg[j + 1] = "SAE"

\* re.search: the leftmost position where the pattern matches, 0 for no match
SearchStart(msg) ==
    LET is == {i \in 1..Len(msg) : MatchAt(msg, i)}
    IN  IF is = {} THEN 0 ELSE CHOOSE i \in is : \A k \in is : i <= k

\* match.group(1): [^"]+? is lazy and (?:\\+)? takes the backslashes before
\* the closing quote, so the group is the shortest non-empty prefix of the
\* quoted text that is followed by backslashes only
Group1(msg) ==
    LET i == SearchStart(msg)
        j == NextQuote(msg, i)
        c == SubSeq(msg, i + 1, j - 1)
        ks == {k \in 1..Len(c) : \A m \in (k + 1)..Len(c) : c[m] = "bs"}
        k == CHOOSE x \in ks : \A y \in ks : x <= y
    IN  SubSeq(c, 1, k)

\* str.rstrip("\\")
RStrip(s) ==
    LET ks == {k \in 0..Len(s) : k = 0 \/ s[k] # "bs"}
        k == CHOOSE x \in ks : \A y \in ks : y <= x
    IN  SubSeq(s, 1, k)

\* dep_name with the whole quoted text taken as the name (greedy group, no rstrip)
DepNameGreedy(msg, requested) ==
    IF SearchStart(msg) # 0
    THEN LET i == SearchStart(msg)
         IN  SubSeq(msg, i + 1, NextQuote(msg, i) - 1)
    ELSE requested

\* dep_name with no fallback to the requested name
DepNameNoFallback(msg, requested) ==
    IF SearchStart(msg) # 0 THEN RStrip(Group1(msg)) ELSE <<>>

\* dep_name = match.group(1).rstrip("\\") if match else name
DepName(msg, requested) ==
    IF SearchStart(msg) # 0 THEN RStrip(Group1(msg)) ELSE requested

----------------------------------------------------------------------------
(* resolve_service_config and json.dumps, line 74 and line 78 *)

\* The raw value of an override is a sequence of characters; the boolean
\* literals are kept atomic.  "2" is the digit, "h" a letter.
RawChars == {"true", "false", "2", ".", "h", "{", "["}

Digits == {"2"}

\* a configuration value: its type and its canonical text
Value(t, v) == [t |-> t, v |-> v]

NoValue == Value("none", <<>>)

Count(raw, c) == Cardinality({i \in 1..Len(raw) : raw[i] = c})

\* the value parses as an integer
ParsesInt(raw) == raw # <<>> /\ \A i \in 1..Len(raw) : raw[i] \in Digits

\* the value parses as floating-point: digits around at most one point
ParsesFloat(raw) ==
    /\ \A i \in 1..Len(raw) : raw[i] \in Digits \cup {"."}
    /\ Count(raw, ".") <= 1
    /\ \E i \in 1..Len(raw) : raw[i] \in Digits

\* the canonical text of the float: 2 -> 2.0, 2. -> 2.0, .2 -> 0.2
FloatText(raw) ==
    LET ps == {i \in 1..Len(raw) : raw[i] = "."}
        p == IF ps = {} THEN Len(raw) + 1 ELSE CHOOSE i \in ps : TRUE
        ip == SubSeq(raw, 1, p - 1)
        fp == SubSeq(raw, p + 1, Len(raw))
    IN  (IF ip = <<>> THEN <<"0">> ELSE ip) \o <<".">> \o
        (IF fp = <<>> THEN <<"0">> ELSE fp)

\* coercion with floating-point tried before integer
CoerceFloatFirst(raw) ==
    IF raw \in {<<"true">>, <<"false">>} THEN Value("bool", raw)
    ELSE IF ParsesFloat(raw) THEN Value("float", FloatText(raw))
    ELSE IF ParsesInt(raw) THEN Value("int", raw)
    ELSE IF raw # <<>> /\ raw[1] \in {"{", "["} THEN Value("json", raw)
    ELSE Value("str", raw)

\* coercion of a raw value: boolean literal, integer, floating-point, JSON
\* when it starts with { or [, string otherwise.  A JSON value is kept as
\* its text.
Coerce(raw) ==
    IF raw \in {<<"true">>, <<"false">>} THEN Value("bool", raw)
    ELSE IF ParsesInt(raw) THEN Value("int", raw)
    ELSE IF ParsesFloat(raw) THEN Value("float", FloatText(raw))
    ELSE IF raw # <<>> /\ raw[1] \in {"{", "["} THEN Value("json", raw)
    ELSE Value("str", raw)

ConfigFiles == {"absent", "malformed", "valid"}

\* an override token --<svc>.<attr>=<raw>; shaped is FALSE for a token of
\* another shape (an unrelated flag)
Token(shaped, svc, attr, raw) ==
    [shaped |-> shaped, svc |-> svc, attr |-> attr, raw |-> raw]

Flag == Token(FALSE, "", "", <<>>)

ArgLists ==
    { <<>>,
      <<Token(TRUE, "A", "x", <<"2">>)>>,
      <<Flag>>,
      <<Token(TRUE, "", "x", <<"2">>)>> }

Entry(svc, attr, val) == [svc |-> svc, attr |-> attr, val |-> val]

\* ConfigParseError for a malformed file
ParseError == <<Entry("ConfigParseError", "", Value("error", <<>>))>>

\* the text of an override token
TokenText(tok) == <<"--", tok.svc, ".", tok.attr, "=">> \o tok.raw

\* ConfigParseError naming the offending token
TokenError(tok) == <<Entry("ConfigParseError", "", Value("error", TokenText(tok)))>>

IsError(r) == r # <<>> /\ r[1].svc = "ConfigParseError"

\* the parsed content of the file: absent and empty give the empty mapping,
\* valid is {"A": {"x": 1}}, two is {"A": {"x": 1, "y": "h"}, "B": {"x": true}}
FileConfig(file) ==
    CASE file = "valid" -> <<Entry("A", "x", Value("int", <<"1">>))>>
      [] file = "two" -> <<Entry("A", "x", Value("int", <<"1">>)),
                           Entry("A", "y", Value("str", <<"h">>)),
                           Entry("B", "x", Value("bool", <<"true">>))>>
      [] OTHER -> <<>>

HasKey(cfg, svc, attr) ==
    \E i \in 1..Len(cfg) : cfg[i].svc = svc /\ cfg[i].attr = attr

\* insertion that keeps the value already there
PutKeepsFirst(cfg, svc, attr, val) ==
    IF HasKey(cfg, svc, attr) THEN cfg ELSE Append(cfg, Entry(svc, attr, val))

\* insertion that never overwrites but adds a second entry
PutAlwaysAppends(cfg, svc, attr, val) == Append(cfg, Entry(svc, attr, val))

\* insert or overwrite cfg[svc][attr]
Put(cfg, svc, attr, val) ==
    IF HasKey(cfg, svc, attr)
    THEN [i \in 1..Len(cfg) |->
             IF cfg[i].svc = svc /\ cfg[i].attr = attr
             THEN [cfg[i] EXCEPT !.val = val] ELSE cfg[i]]
    ELSE Append(cfg, Entry(svc, attr, val))

\* overrides applied with a token whose segment is empty skipped silently
RECURSIVE ApplyOverridesSkipsMalformed(_, _)
ApplyOverridesSkipsMalformed(cfg, toks) ==
    IF toks = <<>> THEN cfg
    ELSE LET tok == Head(toks)
         IN  IF ~tok.shaped \/ tok.svc = "" \/ tok.attr = ""
             THEN ApplyOverridesSkipsMalformed(cfg, Tail(toks))
             ELSE ApplyOverridesSkipsMalformed(
                      Put(cfg, tok.svc, tok.attr, Coerce(tok.raw)), Tail(toks))

\* the overrides applied in the given order
RECURSIVE ApplyOverrides(_, _)
ApplyOverrides(cfg, toks) ==
    IF toks = <<>> THEN cfg
    ELSE LET tok == Head(toks)
         IN  IF ~tok.shaped THEN ApplyOverrides(cfg, Tail(toks))
             ELSE IF tok.svc = "" \/ tok.attr = "" THEN TokenError(tok)
             ELSE ApplyOverrides(
                      Put(cfg, tok.svc, tok.attr, Coerce(tok.raw)), Tail(toks))

resolve_service_config(file, toks) ==
    IF file = "malformed" THEN ParseError
    ELSE ApplyOverrides(FileConfig(file), toks)

\* the distinct elements of a sequence, in the order of their first occurrence
RECURSIVE Uniq(_)
Uniq(s) ==
    IF s = <<>> THEN <<>>
    ELSE LET r == Uniq(SubSeq(s, 1, Len(s) - 1))
         IN  IF \E i \in 1..Len(r) : r[i] = Last(s) THEN r ELSE Append(r, Last(s))

\* the keys of the mapping, in insertion order
ServiceNames(cfg) == Uniq([i \in 1..Len(cfg) |-> cfg[i].svc])

\* the entries of cfg[svc], in insertion order
ServiceEntries(cfg, svc) == SelectSeq(cfg, LAMBDA e : e.svc = svc)

\* the serialized parts joined with ", "
RECURSIVE Join(_)
Join(parts) ==
    IF parts = <<>> THEN <<>>
    ELSE IF Len(parts) = 1 THEN parts[1]
    ELSE parts[1] \o <<", ">> \o Join(Tail(parts))

\* a value as JSON text: a string is quoted, a number, a boolean or a nested
\* JSON value is written as it is
RenderValue(val) ==
    IF val.t = "str" THEN <<"q">> \o val.v \o <<"q">> ELSE val.v

RenderEntry(e) == <<"q", e.attr, "q", ": ">> \o RenderValue(e.val)

RenderService(cfg, svc) ==
    LET es == ServiceEntries(cfg, svc)
    IN  <<"q", svc, "q", ": ", "{">>
        \o Join([i \in 1..Len(es) |-> RenderEntry(es[i])]) \o <<"}">>

Reverse(s) == [i \in 1..Len(s) |-> s[Len(s) + 1 - i]]

\* serialization that writes the services last to first
json_dumpsReversed(cfg) ==
    LET ns == Reverse(ServiceNames(cfg))
    IN  <<"{">> \o Join([i \in 1..Len(ns) |-> RenderService(cfg, ns[i])]) \o <<"}">>

\* json.dumps(service_configs): services and attributes in insertion order
json_dumps(cfg) ==
    LET ns == ServiceNames(cfg)
    IN  <<"{">> \o Join([i \in 1..Len(ns) |-> RenderService(cfg, ns[i])]) \o <<"}">>

----------------------------------------------------------------------------
(* create_deployment, lines 63-128 *)

VerifyMsgs == SeqsUpTo(Alphabet, 1)

Retcodes == 0..MaxRetcode

Line(tmpl, arg) == [tmpl |-> tmpl, arg |-> arg]

Call(op, n, envs, t) == [op |-> op, name |-> n, envs |-> envs, timeout |-> t]

Init ==
    /\ name \in Names \cup {NoName}
    /\ config_file \in ConfigFiles
    /\ args \in ArgLists
    /\ wait \in BOOLEAN
    /\ timeout \in Timeouts
    /\ pc = "resolve"
    /\ service_configs = <<>>
    /\ config_params = NoParams
    /\ deployment = NoDeployment
    /\ calls = <<>>
    /\ stdout = <<>>
    /\ spinner_log = <<>>
    /\ err = NoErr
    /\ raised = "none"
    /\ exc = NoExc
    /\ retcode = NoRetcode
    /\ exit_code = NoExit
    /\ returned = NoDeployment
    /\ failed_at = "none"

\* line 74-75: the configuration is resolved and printed
ResolveOk ==
    /\ pc = "resolve"
    /\ LET r == resolve_service_config(config_file, args)
       IN  /\ ~IsError(r)
           /\ service_configs' = r
           /\ stdout' = Append(stdout, Line("service_configs", r))
    /\ pc' = "build"
    /\ UNCHANGED <<name, exc, config_file, args, retcode, wait, timeout, config_params, deployment, calls,
                   spinner_log, err, raised, exit_code, returned,
                   failed_at>>

\* line 74: resolve_service_config raises; nothing catches it
ResolveRaises ==
    /\ pc = "resolve"
    /\ IsError(resolve_service_config(config_file, args))
    /\ raised' = "ConfigParseError"
    /\ pc' = "raised"
    /\ failed_at' = "resolve"
    /\ UNCHANGED <<name, exc, config_file, args, retcode, wait, timeout, service_configs, config_params,
                   deployment, calls, stdout, spinner_log, err, exit_code,
                   returned>>

\* the variable is set whether or not there is a configuration
EnvDictsAlways(cfg) ==
    <<[name |-> "DYN_DEPLOYMENT_CONFIG", value |-> json_dumps(cfg)]>>

\* lines 76-80: env_dicts
EnvDicts(cfg) ==
    IF cfg # <<>>
    THEN <<[name |-> "DYN_DEPLOYMENT_CONFIG", value |-> json_dumps(cfg)]>>
    ELSE <<>>

\* lines 82-89: DeploymentConfigParameters(name=name, envs=env_dicts, cli=True)
BuildParams == [name |-> name, envs |-> EnvDicts(service_configs), cli |-> TRUE]

\* lines 76-92: the request is built and verify() returns
VerifyOk ==
    /\ pc = "build"
    /\ config_params' = BuildParams
    /\ pc' = "create"
    /\ UNCHANGED <<name, exc, config_file, args, retcode, wait, timeout, service_configs, deployment, calls,
                   stdout, spinner_log, err, raised, exit_code, returned,
                   failed_at>>

\* verify() raises BentoMLException, the error is printed and the run goes on
VerifyFailsNoExit ==
    /\ pc = "build"
    /\ config_params' = BuildParams
    /\ \E msg \in VerifyMsgs, code \in ErrorCodes :
         /\ err' = [msg |-> msg, code |-> code]
         /\ stdout' = Append(stdout, Line("error", msg))
    /\ pc' = "create"
    /\ failed_at' = "verify"
    /\ UNCHANGED <<name, exc, config_file, args, retcode, wait, timeout, service_configs, deployment, calls,
                   spinner_log, raised, exit_code, returned>>

\* lines 76-95: verify() raises BentoMLException: print and sys.exit(1)
VerifyFails ==
    /\ pc = "build"
    /\ config_params' = BuildParams
    /\ \E msg \in VerifyMsgs, code \in ErrorCodes :
         /\ err' = [msg |-> msg, code |-> code]
         /\ stdout' = Append(stdout, Line("error", msg))
    /\ exit_code' = 1
    /\ pc' = "exited"
    /\ failed_at' = "verify"
    /\ UNCHANGED <<name, exc, config_file, args, retcode, wait, timeout, service_configs, deployment, calls,
                   spinner_log, raised, returned>>

\* lines 76-92: verify() raises something that is no BentoMLException
VerifyRaisesOther ==
    /\ pc = "build"
    /\ config_params' = BuildParams
    /\ raised' = "Exception"
    /\ pc' = "raised"
    /\ failed_at' = "verify"
    /\ UNCHANGED <<name, exc, config_file, args, retcode, wait, timeout, service_configs, deployment, calls,
                   stdout, spinner_log, err, exit_code, returned>>

\* the except block cleaning the whole message the way it cleans the name
ExceptBentoMLExceptionCleaning(e) ==
    /\ err' = e
    /\ stdout' =
         IF AlreadyExistsIn(e.msg)
         THEN Append(stdout, Line("conflict", DepName(e.msg, name)))
         ELSE Append(stdout, Line("error", RStrip(e.msg)))
    /\ exit_code' = 1
    /\ pc' = "exited"

\* lines 114-128: except BentoMLException as e
ExceptBentoMLException(e) ==
    /\ err' = e
    /\ stdout' =
         IF AlreadyExistsIn(e.msg)
         THEN Append(stdout, Line("conflict", DepName(e.msg, name)))
         ELSE Append(stdout, Line("error", e.msg))
    /\ exit_code' = 1
    /\ pc' = "exited"

\* the names the backend may give the deployment it creates
HandleNames == IF name = NoName THEN Names ELSE {name}

\* line 100: the create call as issued
CreateCall == Call("create", config_params.name, config_params.envs, 0)

\* line 110: the wait_until_ready call as issued
WaitCall == Call("wait_until_ready", deployment.name, <<>>, timeout)

\* create returns a deployment and the readiness wait is entered whatever wait is
CreateOkAlwaysWaits ==
    /\ pc = "create"
    /\ calls' = Append(calls, CreateCall)
    /\ \E n \in HandleNames :
         /\ deployment' = [name |-> n, cluster |-> "default"]
         /\ spinner_log' = Append(spinner_log, Line("created", n))
    /\ pc' = "wait"
    /\ UNCHANGED <<name, exc, config_file, args, retcode, wait, timeout, service_configs, config_params,
                   stdout, err, raised, exit_code, returned, failed_at>>

\* lines 100-106 and 113: create returns a deployment
CreateOk ==
    /\ pc = "create"
    /\ calls' = Append(calls, CreateCall)
    /\ \E n \in HandleNames :
         /\ deployment' = [name |-> n, cluster |-> "default"]
         /\ spinner_log' = Append(spinner_log, Line("created", n))
    /\ IF wait
       THEN pc' = "wait" /\ returned' = returned
       ELSE pc' = "returned" /\ returned' = deployment'
    /\ UNCHANGED <<name, exc, config_file, args, retcode, wait, timeout, service_configs, config_params,
                   stdout, err, raised, exit_code,
                   failed_at>>

\* create raises BentoMLException and the call is tried again
CreateFailsRetry ==
    /\ pc = "create"
    /\ calls' = Append(calls, CreateCall)
    /\ \E msg \in VerifyMsgs, code \in ErrorCodes :
         err' = [msg |-> msg, code |-> code]
    /\ pc' = "create"
    /\ UNCHANGED <<name, exc, config_file, args, retcode, wait, timeout, service_configs, config_params,
                   deployment, stdout, spinner_log, raised, exit_code,
                   returned, failed_at>>

\* lines 100 and 114-128: create raises BentoMLException
CreateFails ==
    /\ pc = "create"
    /\ calls' = Append(calls, CreateCall)
    /\ \E msg \in Msgs, code \in ErrorCodes :
         ExceptBentoMLException([msg |-> msg, code |-> code])
    /\ failed_at' = "create"
    /\ UNCHANGED <<name, exc, config_file, args, retcode, wait, timeout, service_configs, config_params,
                   deployment, spinner_log, raised, returned>>

\* line 100: create raises something that is no BentoMLException
CreateRaisesOther ==
    /\ pc = "create"
    /\ calls' = Append(calls, CreateCall)
    /\ raised' = "Exception"
    /\ pc' = "raised"
    /\ failed_at' = "create"
    /\ UNCHANGED <<name, exc, config_file, args, retcode, wait, timeout, service_configs, config_params,
                   deployment, stdout, spinner_log, err, exit_code, returned>>

\* wait_until_ready returns retcode and a failed wait deletes the deployment
WaitReturnsRollback ==
    /\ pc = "wait"
    /\ \E rc \in Retcodes :
         IF rc # 0
         THEN /\ retcode' = rc
              /\ calls' = calls \o <<WaitCall, Call("delete", deployment.name, <<>>, 0)>>
              /\ exit_code' = rc
              /\ pc' = "exited"
              /\ returned' = returned
              /\ failed_at' = "wait"
         ELSE /\ retcode' = rc
              /\ calls' = Append(calls, WaitCall)
              /\ exit_code' = exit_code
              /\ pc' = "returned"
              /\ returned' = deployment
              /\ failed_at' = failed_at
    /\ UNCHANGED <<name, exc, config_file, args, wait, timeout, service_configs, config_params,
                   deployment, stdout, spinner_log, err, raised>>

\* wait_until_ready returns retcode and the run exits 1 whatever it is
WaitReturnsExitsOne ==
    /\ pc = "wait"
    /\ calls' = Append(calls, WaitCall)
    /\ \E rc \in Retcodes :
         IF rc # 0
         THEN /\ retcode' = rc
              /\ exit_code' = 1
              /\ pc' = "exited"
              /\ returned' = returned
              /\ failed_at' = "wait"
         ELSE /\ retcode' = rc
              /\ exit_code' = exit_code
              /\ pc' = "returned"
              /\ returned' = deployment
              /\ failed_at' = failed_at
    /\ UNCHANGED <<name, exc, config_file, args, wait, timeout, service_configs, config_params,
                   deployment, stdout, spinner_log, err, raised>>

\* wait_until_ready returns retcode and the handle is returned whatever it is
WaitReturnsIgnoresRetcode ==
    /\ pc = "wait"
    /\ calls' = Append(calls, WaitCall)
    /\ \E rc \in Retcodes :
         /\ retcode' = rc
         /\ exit_code' = exit_code
         /\ pc' = "returned"
         /\ returned' = deployment
         /\ failed_at' = failed_at
    /\ UNCHANGED <<name, exc, config_file, args, wait, timeout, service_configs, config_params,
                   deployment, stdout, spinner_log, err, raised>>

\* lines 110-113: wait_until_ready returns retcode
WaitReturns ==
    /\ pc = "wait"
    /\ calls' = Append(calls, WaitCall)
    /\ \E rc \in Retcodes :
         IF rc # 0
         THEN /\ retcode' = rc
              /\ exit_code' = rc
              /\ pc' = "exited"
              /\ returned' = returned
              /\ failed_at' = "wait"
         ELSE /\ retcode' = rc
              /\ exit_code' = exit_code
              /\ pc' = "returned"
              /\ returned' = deployment
              /\ failed_at' = failed_at
    /\ UNCHANGED <<name, exc, config_file, args, wait, timeout, service_configs, config_params,
                   deployment, stdout, spinner_log, err, raised>>

\* lines 110 and 114-128: wait_until_ready raises BentoMLException
WaitFails ==
    /\ pc = "wait"
    /\ calls' = Append(calls, WaitCall)
    /\ \E msg \in Msgs, code \in ErrorCodes :
         ExceptBentoMLException([msg |-> msg, code |-> code])
    /\ failed_at' = "wait"
    /\ UNCHANGED <<name, exc, config_file, args, retcode, wait, timeout, service_configs, config_params,
                   deployment, spinner_log, raised, returned>>

\* line 110: wait_until_ready raises something that is no BentoMLException
WaitRaisesOther ==
    /\ pc = "wait"
    /\ calls' = Append(calls, WaitCall)
    /\ raised' = "Exception"
    /\ pc' = "raised"
    /\ failed_at' = "wait"
    /\ UNCHANGED <<name, exc, config_file, args, retcode, wait, timeout, service_configs, config_params,
                   deployment, stdout, spinner_log, err, exit_code, returned>>

Next ==
    \/ ResolveOk
    \/ ResolveRaises
    \/ VerifyOk
    \/ VerifyFails
    \/ VerifyRaisesOther
    \/ CreateOk
    \/ CreateFails
    \/ CreateRaisesOther
    \/ WaitReturns
    \/ WaitFails
    \/ WaitRaisesOther

Spec == Init /\ [][Next]_vars

----------------------------------------------------------------------------
(* configuration resolution over a wider range of files and overrides *)

MaxOverrides == 2
MaxRawLen == 3

Services == {"A", "B"}
Attributes == {"x", "y"}

WideConfigFiles == ConfigFiles \cup {"empty", "two"}

\* the tokens of the override lists: every service and attribute, the empty
\* segment included, and a token of another shape
ListTokens ==
    {Token(TRUE, s, a, r) : s \in Services \cup {""}, a \in Attributes \cup {""},
                            r \in {<<"2">>, <<"true">>}}
    \cup {Flag}

OverrideLists == SeqsUpTo(ListTokens, MaxOverrides)

\* one override of A.x for every raw value
RawValues == SeqsUpTo(RawChars, MaxRawLen)
CoerceLists == {<<Token(TRUE, "A", "x", r)>> : r \in RawValues}

\* --A.x=h --B.y=2.2, a string for one service and a float for another
ExampleList == <<Token(TRUE, "A", "x", <<"h">>), Token(TRUE, "B", "y", <<"2", ".", "2">>)>>

WideArgLists == OverrideLists \cup CoerceLists \cup {ExampleList}

InitResolve ==
    /\ name = NoName
    /\ config_file \in WideConfigFiles
    /\ args \in WideArgLists
    /\ wait = TRUE
    /\ timeout = DefaultTimeout
    /\ pc = "resolve"
    /\ service_configs = <<>>
    /\ config_params = NoParams
    /\ deployment = NoDeployment
    /\ calls = <<>>
    /\ stdout = <<>>
    /\ spinner_log = <<>>
    /\ err = NoErr
    /\ raised = "none"
    /\ exc = NoExc
    /\ retcode = NoRetcode
    /\ exit_code = NoExit
    /\ returned = NoDeployment
    /\ failed_at = "none"

\* lines 74-95: the run up to the built and verified request
NextResolve ==
    \/ ResolveOk
    \/ ResolveRaises
    \/ VerifyOk
    \/ VerifyFails
    \/ VerifyRaisesOther

SpecResolve == InitResolve /\ [][NextResolve]_vars

----------------------------------------------------------------------------
(* get_deployment, delete_deployment, list_deployments, lines 131-211 *)

\* the text of a backend error: NCC stands for the words
\* "No cloud context default found"
OpsAlphabet == {"a", "NCC"}

OpsMsgs == SeqsUpTo(OpsAlphabet, MaxMsgLen)

\* "No cloud context default found" in str(e)
NoCloudContextIn(msg) == \E i \in 1..Len(msg) : msg[i] = "NCC"

Actions == {"get", "delete", "list"}

\* lines 52-59: the exception raise_deployment_config_error(err, action) raises
raise_deployment_config_error(e, action) ==
    IF e.code = UNAUTHORIZED
    THEN Exc("login_hint", "", e.msg)
    ELSE Exc("invalid_configuration", action, e.msg)

\* the except block with the error code looked at before the message
ExceptOpCodeFirst(e, action) ==
    /\ err' = e
    /\ exc' = IF e.code = UNAUTHORIZED
              THEN raise_deployment_config_error(e, action)
              ELSE IF NoCloudContextIn(e.msg)
              THEN Exc("not_logged_in", "", <<>>)
              ELSE raise_deployment_config_error(e, action)
    /\ raised' = "BentoMLException"
    /\ pc' = "raised"
    /\ failed_at' = action

\* the except block of the three operations: lines 146-151, 166-171, 206-211
ExceptOp(e, action) ==
    /\ err' = e
    /\ exc' = IF NoCloudContextIn(e.msg)
              THEN Exc("not_logged_in", "", <<>>)
              ELSE raise_deployment_config_error(e, action)
    /\ raised' = "BentoMLException"
    /\ pc' = "raised"
    /\ failed_at' = action

\* parameter cluster, "None" when it is not given
Clusters == {"None", "c"}

\* the cluster of a deployment the backend reports
BackendClusters == {"default", "c"}

\* parameter q of list_deployments, NoQuery when it is not given
NoQuery == <<"None">>
Queries == {NoQuery, <<"q">>}

\* parameter labels of list_deployments, each label written label:<key>=<value>
NoLabels == <<"None">>
LabelLists == {NoLabels, <<>>, <<"label:k=v">>, <<"label:k=v", "label:l=w">>}

\* " ".join(...)
RECURSIVE JoinSpaces(_)
JoinSpaces(items) ==
    IF items = <<>> THEN <<>>
    ELSE IF Len(items) = 1 THEN items
    ELSE <<Head(items), " ">> \o JoinSpaces(Tail(items))

\* lines 188-193: the query sent to the backend
LabelQuery(q, labels) ==
    IF labels = NoLabels THEN q
    ELSE IF q # NoQuery THEN q \o <<" ">> \o JoinSpaces(labels)
    ELSE JoinSpaces(labels)

\* a call on _cloud_client.deployment by get, delete or list
OpCall(op, n, cluster, q) == [op |-> op, name |-> n, cluster |-> cluster, q |-> q]

\* the variables only create_deployment writes
CreateOnly == <<config_file, args, wait, timeout, service_configs, config_params,
                stdout, retcode, exit_code>>

InitOps ==
    /\ pc \in Actions
    /\ name \in (IF pc = "list" THEN {NoName} ELSE Names)
    /\ config_file = "absent"
    /\ args = <<>>
    /\ wait = FALSE
    /\ timeout = DefaultTimeout
    /\ service_configs = <<>>
    /\ config_params = NoParams
    /\ deployment = NoDeployment
    /\ calls = <<>>
    /\ stdout = <<>>
    /\ spinner_log = <<>>
    /\ err = NoErr
    /\ raised = "none"
    /\ exc = NoExc
    /\ retcode = NoRetcode
    /\ exit_code = NoExit
    /\ returned = NoDeployment
    /\ failed_at = "none"

\* lines 141-145: get returns the deployment, it is logged and returned
GetOk ==
    /\ pc = "get"
    /\ \E c \in Clusters : calls' = Append(calls, OpCall("get", name, c, <<>>))
    /\ \E n \in Names, c \in BackendClusters :
         /\ deployment' = [name |-> n, cluster |-> c]
         /\ spinner_log' = Append(spinner_log, Line("found", <<n, c>>))
    /\ returned' = deployment'
    /\ pc' = "returned"
    /\ UNCHANGED <<name, CreateOnly, err, raised, exc, failed_at>>

\* lines 141 and 146-151: get raises BentoMLException
GetFails ==
    /\ pc = "get"
    /\ \E c \in Clusters : calls' = Append(calls, OpCall("get", name, c, <<>>))
    /\ \E msg \in OpsMsgs, code \in ErrorCodes :
         ExceptOp([msg |-> msg, code |-> code], "get")
    /\ UNCHANGED <<name, CreateOnly, deployment, spinner_log, returned>>

\* line 141: get raises something that is no BentoMLException
GetRaisesOther ==
    /\ pc = "get"
    /\ \E c \in Clusters : calls' = Append(calls, OpCall("get", name, c, <<>>))
    /\ raised' = "Exception"
    /\ pc' = "raised"
    /\ failed_at' = "get"
    /\ UNCHANGED <<name, CreateOnly, deployment, spinner_log, err, exc, returned>>

\* lines 164-165: delete returns and the success is logged
DeleteOk ==
    /\ pc = "delete"
    /\ \E c \in Clusters : calls' = Append(calls, OpCall("delete", name, c, <<>>))
    /\ spinner_log' = Append(spinner_log, Line("deleted", name))
    /\ pc' = "returned"
    /\ UNCHANGED <<name, CreateOnly, deployment, err, raised, exc, returned, failed_at>>

\* lines 164 and 166-171: delete raises BentoMLException
DeleteFails ==
    /\ pc = "delete"
    /\ \E c \in Clusters : calls' = Append(calls, OpCall("delete", name, c, <<>>))
    /\ \E msg \in OpsMsgs, code \in ErrorCodes :
         ExceptOp([msg |-> msg, code |-> code], "delete")
    /\ UNCHANGED <<name, CreateOnly, deployment, spinner_log, returned>>

\* line 164: delete raises something that is no BentoMLException
DeleteRaisesOther ==
    /\ pc = "delete"
    /\ \E c \in Clusters : calls' = Append(calls, OpCall("delete", name, c, <<>>))
    /\ raised' = "Exception"
    /\ pc' = "raised"
    /\ failed_at' = "delete"
    /\ UNCHANGED <<name, CreateOnly, deployment, spinner_log, err, exc, returned>>

\* lines 195-197: the list call as issued
ListCalls ==
    {OpCall("list", <<>>, c, LabelQuery(q, labels)) :
        c \in Clusters, q \in Queries, labels \in LabelLists}

\* what the backend lists
DeploymentLists ==
    {<<>>, <<[name |-> <<"a">>, cluster |-> "default"]>>,
     <<[name |-> <<"a">>, cluster |-> "default"], [name |-> <<"a">>, cluster |-> "c"]>>}

\* lines 199-205: the lines logged for the deployments listed
ListLog(ds) ==
    IF ds = <<>> THEN <<Line("none_found", <<>>)>>
    ELSE <<Line("found_deployments", <<>>)>>
         \o [i \in 1..Len(ds) |-> Line("item", <<ds[i].name, ds[i].cluster>>)]

\* lines 188-205: list returns the deployments and they are logged
ListOk ==
    /\ pc = "list"
    /\ \E call \in ListCalls : calls' = Append(calls, call)
    /\ \E ds \in DeploymentLists : spinner_log' = spinner_log \o ListLog(ds)
    /\ pc' = "returned"
    /\ UNCHANGED <<name, CreateOnly, deployment, err, raised, exc, returned, failed_at>>

\* lines 188-197 and 206-211: list raises BentoMLException
ListFails ==
    /\ pc = "list"
    /\ \E call \in ListCalls : calls' = Append(calls, call)
    /\ \E msg \in OpsMsgs, code \in ErrorCodes :
         ExceptOp([msg |-> msg, code |-> code], "list")
    /\ UNCHANGED <<name, CreateOnly, deployment, spinner_log, returned>>

\* line 195: list raises something that is no BentoMLException
ListRaisesOther ==
    /\ pc = "list"
    /\ \E call \in ListCalls : calls' = Append(calls, call)
    /\ raised' = "Exception"
    /\ pc' = "raised"
    /\ failed_at' = "list"
    /\ UNCHANGED <<name, CreateOnly, deployment, spinner_log, err, exc, returned>>

NextOps ==
    \/ GetOk
    \/ GetFails
    \/ GetRaisesOther
    \/ DeleteOk
    \/ DeleteFails
    \/ DeleteRaisesOther
    \/ ListOk
    \/ ListFails
    \/ ListRaisesOther

SpecOps == InitOps /\ [][NextOps]_vars

----------------------------------------------------------------------------
(* Properties *)

Terminal == pc \in {"returned", "exited", "raised"}

Ops == [i \in 1..Len(calls) |-> calls[i].op]

\* the run ended in the except block entered from the create call
CreateErrorHandled == pc = "exited" /\ failed_at = "create"

\* the names a message can quote
QuotedNames == SeqsUpTo({"a"}, MaxMsgLen) \ {<<>>}

\* msg reads  <text without quotes> "n" already exists <text>, the name
\* possibly followed by the backslashes of an escaped closing quote
ReportsExists(msg, n) ==
    \E i \in 1..Len(msg) :
        /\ msg[i] = "q"
        /\ \A k \in 1..(i - 1) : msg[k] # "q"
        /\ i + Len(n) + 2 <= Len(msg)
        /\ SubSeq(msg, i + 1, i + Len(n)) = n
        /\ \E b \in 0..(Len(msg) - i - Len(n) - 2) :
              /\ \A k \in (i + Len(n) + 1)..(i + Len(n) + b) : msg[k] = "bs"
              /\ msg[i + Len(n) + b + 1] = "q"
              /\ msg[i + Len(n) + b + 2] = "SAE"

\* C1: when the create call fails with a message reporting that deployment
\* "n" already exists, the run ends with the conflict message naming exactly
\* n and exit code 1 (not the generic error line), and wait_until_ready is
\* never called.
C1_ConflictCarriesName ==
    CreateErrorHandled =>
        \A n \in QuotedNames :
            ReportsExists(err.msg, n)
                => /\ Last(stdout) = Line("conflict", n)
                   /\ exit_code = 1
                   /\ raised = "none"
                   /\ Ops = <<"create">>

C1_Witness ==
    /\ CreateErrorHandled
    /\ name # NoName
    /\ ReportsExists(err.msg, name)
    /\ \E k \in 1..Len(err.msg) : err.msg[k] = "bs"
    /\ Last(stdout) = Line("conflict", name)

\* C2: with wait false, a successful create call is followed at once by the
\* return of the handle: the only call ever issued is the create call, no
\* wait_until_ready call lies between it and the return.
C2_NoWaitReturnsImmediately ==
    (~wait /\ deployment # NoDeployment)
        => /\ pc = "returned"
           /\ returned = deployment
           /\ Ops = <<"create">>

C2_Witness == ~wait /\ pc = "returned" /\ returned = deployment /\ returned # NoDeployment

\* what the caller observes at the end of a run, message text aside
IsReady == pc = "returned"
IsConflict == pc = "exited" /\ stdout # <<>> /\ Last(stdout).tmpl = "conflict"
IsFailed == pc = "exited" /\ stdout # <<>> /\ Last(stdout).tmpl = "error"
\* sys.exit(retcode) after wait_until_ready: timed out or failed deployment
IsPollExit == pc = "exited" /\ failed_at = "wait" /\ err = NoErr

\* C4 (as claimed): every run that reaches the backend ends in one of the
\* classified outcomes Ready, TimedOut, Conflict, AuthRequired or Failed,
\* however the create call and the wait fail.
C4_TerminalOutcomeClassified ==
    (Terminal /\ calls # <<>>)
        => (IsReady \/ IsConflict \/ IsFailed \/ IsPollExit)

\* C5 (as claimed): a create call that fails with an unauthorized error ends
\* the run in an outcome of its own, reported neither the way Failed is nor
\* the way Conflict is.
C5_UnauthorizedIsAuthRequired ==
    (CreateErrorHandled /\ err.code = UNAUTHORIZED)
        => (~IsFailed /\ ~IsConflict)

\* C6: when the create call fails with an error that is neither unauthorized
\* nor "already exists", the run ends with the generic error line carrying
\* the backend's message unmodified, and exit code 1.
C6_OtherErrorIsFailedUnmodified ==
    (CreateErrorHandled /\ err.code # UNAUTHORIZED /\ ~AlreadyExistsIn(err.msg))
        => /\ Last(stdout) = Line("error", err.msg)
           /\ exit_code = 1
           /\ raised = "none"

C6_Witness ==
    /\ CreateErrorHandled
    /\ err.code = INTERNAL_SERVER_ERROR
    /\ Len(err.msg) >= 2
    /\ ~AlreadyExistsIn(err.msg)
    /\ Last(stdout) = Line("error", err.msg)

\* C7: when the create call fails with an "already exists" message the
\* name pattern does not match, the run still ends with the conflict message,
\* naming the requested name, with exit code 1 and no other error raised.
C7_ExtractionFallsBackToRequested ==
    (CreateErrorHandled /\ AlreadyExistsIn(err.msg) /\ SearchStart(err.msg) = 0)
        => /\ Last(stdout) = Line("conflict", name)
           /\ exit_code = 1
           /\ raised = "none"

C7_Witness ==
    /\ CreateErrorHandled
    /\ AlreadyExistsIn(err.msg)
    /\ SearchStart(err.msg) = 0
    /\ \E k \in 1..Len(err.msg) : err.msg[k] = "q"
    /\ Last(stdout) = Line("conflict", name)

\* C8: no retry: the calls of a run are at most one create followed by at
\* most one wait_until_ready, the latter only on the deployment the create
\* call returned; nothing follows a failed create or a failed wait.
C8_NoRetry ==
    /\ Ops \in {<<>>, <<"create">>, <<"create", "wait_until_ready">>}
    /\ (Len(Ops) = 2 => deployment # NoDeployment)
    /\ (failed_at = "create" => Ops = <<"create">>)
    /\ (Terminal => ~ENABLED Next)

C8_Witness ==
    /\ pc = "exited"
    /\ failed_at = "wait"
    /\ Ops = <<"create", "wait_until_ready">>

CancellingOps == {"delete", "terminate"}

\* C9: no rollback: no delete or other cancelling call is ever issued by the
\* create flow, in particular not after the wait timed out or failed.
C9_NoRollback ==
    \A i \in 1..Len(calls) : calls[i].op \notin CancellingOps

C9_Witness ==
    /\ IsPollExit
    /\ exit_code # 0
    /\ deployment # NoDeployment
    /\ Last(calls).op = "wait_until_ready"

\* C10: fail fast: a run ended by configuration resolution or by verify()
\* has issued no call to the backend, and the first call, the create call,
\* is issued only with the request built from the resolved configuration.
C10_FailFast ==
    /\ (failed_at \in {"resolve", "verify"} => calls = <<>>)
    /\ (pc \in {"resolve", "build"} => calls = <<>>)
    /\ (calls # <<>> => (config_params = BuildParams /\ calls[1] = CreateCall))

C10_Witness ==
    /\ pc = "raised"
    /\ raised = "ConfigParseError"
    /\ failed_at = "resolve"
    /\ calls = <<>>

\* C11 (as claimed): the outcomes are told apart by the exit code: a run
\* that ends in Conflict, and a run ended by a validation error, exit with a
\* code other than 1, the code a run that ends in Failed exits with.
C11_DistinctExitCodes ==
    /\ (IsConflict => exit_code # 1)
    /\ ((pc = "exited" /\ failed_at = "verify") => exit_code # 1)

\* the exit status of the process: 0 when create_deployment returns, the
\* argument of sys.exit, 1 when an exception leaves the interpreter
ProcessExitCode ==
    CASE pc = "returned" -> 0
      [] pc = "exited" -> exit_code
      [] pc = "raised" -> 1
      [] OTHER -> NoExit

\* the create call succeeded and, with wait, wait_until_ready returned 0
Succeeded == deployment # NoDeployment /\ (wait => retcode = 0)

\* C12: at the end of a run the exit code is 0 exactly when the run
\* succeeded; a non-zero code r returned by wait_until_ready is the exit
\* code; a run ended by configuration resolution or by verify() exits 1.
C12_ExitCode ==
    Terminal =>
        /\ (ProcessExitCode = 0 <=> Succeeded)
        /\ (retcode \notin {NoRetcode, 0} => ProcessExitCode = retcode)
        /\ (failed_at \in {"resolve", "verify"} => ProcessExitCode = 1)

C12_Witness ==
    /\ pc = "exited"
    /\ failed_at = "wait"
    /\ retcode = MaxRetcode
    /\ ProcessExitCode = MaxRetcode
    /\ deployment # NoDeployment

\* configuration resolution returned
Resolved == pc # "resolve" /\ failed_at # "resolve"

\* the value at cfg[svc][attr]
ValueAt(cfg, svc, attr) ==
    IF HasKey(cfg, svc, attr)
    THEN cfg[CHOOSE i \in 1..Len(cfg) : cfg[i].svc = svc /\ cfg[i].attr = attr].val
    ELSE NoValue

WellFormed(tok) == tok.shaped /\ tok.svc # "" /\ tok.attr # ""

Malformed(tok) == tok.shaped /\ (tok.svc = "" \/ tok.attr = "")

\* the positions of the overrides that target (svc, attr)
Targets(svc, attr) ==
    {i \in 1..Len(args) : WellFormed(args[i]) /\ args[i].svc = svc /\ args[i].attr = attr}

Max(S) == CHOOSE m \in S : \A k \in S : k <= m

\* C13: in the resolved configuration the value at (service, attribute) is
\* the coerced value of the last override that targets it, and the file's
\* value (or nothing) when no override does; resolution fails only on a
\* malformed file or a malformed token, never on a repeated override.
C13_LastOverrideWins ==
    /\ Resolved =>
          \A s \in Services, a \in Attributes :
              ValueAt(service_configs, s, a) =
                  IF Targets(s, a) # {}
                  THEN Coerce(args[Max(Targets(s, a))].raw)
                  ELSE ValueAt(FileConfig(config_file), s, a)
    /\ failed_at = "resolve" =>
          \/ config_file = "malformed"
          \/ \E i \in 1..Len(args) : Malformed(args[i])

C13_Witness ==
    /\ Resolved
    /\ config_file = "valid"
    /\ Len(args) = 2
    /\ Targets("A", "x") = {1, 2}
    /\ args[1].raw # args[2].raw
    /\ ValueAt(service_configs, "A", "x") = Coerce(args[2].raw)
    /\ ValueAt(service_configs, "A", "x") # ValueAt(FileConfig(config_file), "A", "x")

KeySet(cfg) == {<<cfg[i].svc, cfg[i].attr>> : i \in 1..Len(cfg)}

\* C14: the keys of the resolved configuration are the keys of the file
\* together with the keys the well-formed overrides target, each once; an
\* attribute of the file that no override targets keeps its value.
C14_MergeComplete ==
    Resolved =>
        /\ KeySet(service_configs) =
               KeySet(FileConfig(config_file))
               \cup {<<args[i].svc, args[i].attr>> :
                        i \in {k \in 1..Len(args) : WellFormed(args[k])}}
        /\ Cardinality(KeySet(service_configs)) = Len(service_configs)
        /\ \A k \in KeySet(FileConfig(config_file)) :
               Targets(k[1], k[2]) = {}
                   => ValueAt(service_configs, k[1], k[2])
                          = ValueAt(FileConfig(config_file), k[1], k[2])

\* empty file and --B.y=true give {"B": {"y": true}}
C14_Witness ==
    /\ Resolved
    /\ config_file = "empty"
    /\ args = <<Token(TRUE, "B", "y", <<"true">>)>>
    /\ service_configs = <<Entry("B", "y", Value("bool", <<"true">>))>>

\* the type the priority of spec 4.1 gives a raw value
TypeOf(raw) ==
    CASE raw \in {<<"true">>, <<"false">>} -> "bool"
      [] raw \notin {<<"true">>, <<"false">>} /\ ParsesInt(raw) -> "int"
      [] ~ParsesInt(raw) /\ ParsesFloat(raw) -> "float"
      [] raw # <<>> /\ raw[1] \in {"{", "["} -> "json"
      [] OTHER -> "str"

\* C15: the value an override leaves in the resolved configuration has the
\* type the priority gives its raw text: boolean for true/false, else
\* integer when it parses as one, else float, JSON when it starts with { or
\* [, string otherwise; 2 is the integer 2, .2 the float 0.2, h the string h.
C15_CoercionPriority ==
    Resolved =>
        \A i \in 1..Len(args) :
            (WellFormed(args[i]) /\ Max(Targets(args[i].svc, args[i].attr)) = i)
                => LET raw == args[i].raw
                       val == ValueAt(service_configs, args[i].svc, args[i].attr)
                   IN  /\ val.t = TypeOf(raw)
                       /\ val.t \in {"bool", "int", "json", "str"} => val.v = raw
                       /\ raw = <<"2">> => val = Value("int", <<"2">>)
                       /\ raw = <<".", "2">> => val = Value("float", <<"0", ".", "2">>)
                       /\ raw = <<"2", ".", "2">> => val = Value("float", raw)
                       /\ raw = <<"h">> => val = Value("str", raw)
                       /\ raw = <<"{", "h">> => val = Value("json", raw)

\* an override whose text parses as an integer and as a float
C15_Witness ==
    /\ Resolved
    /\ args = <<Token(TRUE, "A", "x", <<"2", "2">>)>>
    /\ ParsesFloat(args[1].raw)
    /\ ValueAt(service_configs, "A", "x") = Value("int", <<"2", "2">>)

Min(S) == CHOOSE m \in S : \A k \in S : m <= k

MalformedAt == {i \in 1..Len(args) : Malformed(args[i])}

\* C16: every well-formed token is applied; with a readable file, a token
\* of the override shape with an empty segment ends resolution with
\* ConfigParseError naming that token, no configuration is resolved and no
\* request is built; the tokens of another shape change nothing: the result
\* is the one of the list without them.
C16_TokenCases ==
    /\ (config_file # "malformed" /\ MalformedAt # {} /\ pc # "resolve")
          => /\ pc = "raised"
             /\ raised = "ConfigParseError"
             /\ failed_at = "resolve"
             /\ service_configs = <<>>
             /\ config_params = NoParams
             /\ resolve_service_config(config_file, args)
                    = TokenError(args[Min(MalformedAt)])
    /\ Resolved
          => /\ MalformedAt = {}
             /\ \A i \in 1..Len(args) :
                    WellFormed(args[i])
                        => HasKey(service_configs, args[i].svc, args[i].attr)
             /\ service_configs =
                    resolve_service_config(config_file,
                                           SelectSeq(args, LAMBDA t : t.shaped))

\* a well-formed token followed by a token with an empty segment
C16_Witness ==
    /\ pc = "raised"
    /\ failed_at = "resolve"
    /\ config_file = "valid"
    /\ Len(args) = 2
    /\ WellFormed(args[1])
    /\ Malformed(args[2])
    /\ service_configs = <<>>

\* the elements of a set of positions, ascending
RECURSIVE Ascending(_)
Ascending(S) == IF S = {} THEN <<>> ELSE <<Min(S)>> \o Ascending(S \ {Min(S)})

\* the keys of a serialized mapping, in the order they are written: the
\* quoted words followed by a colon
KeysIn(text) ==
    LET at == {i \in 2..(Len(text) - 2) :
                  text[i - 1] = "q" /\ text[i + 1] = "q" /\ text[i + 2] = ": "}
        ps == Ascending(at)
    IN  [k \in 1..Len(ps) |-> text[ps[k]]]

WellFormedArgs == SelectSeq(args, WellFormed)

\* file keys first in file order, then the keys the overrides introduce in
\* the order of their first occurrence
ExpectedServices ==
    LET f == FileConfig(config_file)
    IN  Uniq([i \in 1..Len(f) |-> f[i].svc]
             \o [i \in 1..Len(WellFormedArgs) |-> WellFormedArgs[i].svc])

ExpectedAttributes(svc) ==
    LET f == SelectSeq(FileConfig(config_file), LAMBDA e : e.svc = svc)
        o == SelectSeq(WellFormedArgs, LAMBDA t : t.svc = svc)
    IN  Uniq([i \in 1..Len(f) |-> f[i].attr] \o [i \in 1..Len(o) |-> o[i].attr])

RECURSIVE ExpectedKeys(_)
ExpectedKeys(ns) ==
    IF ns = <<>> THEN <<>>
    ELSE <<Head(ns)>> \o ExpectedAttributes(Head(ns)) \o ExpectedKeys(Tail(ns))

\* C17: the serialized configuration placed in the request writes service
\* names and attribute names in insertion order: file keys first in file
\* order, then override-introduced keys in first-occurrence order; the empty
\* file with --A.x=h --B.y=2.2 serializes exactly as
\* {"A": {"x": "h"}, "B": {"y": 2.2}}.
C17_StableSerialization ==
    (config_params # NoParams /\ service_configs # <<>>)
        => LET text == config_params.envs[1].value
           IN  /\ KeysIn(text) = ExpectedKeys(ExpectedServices)
               /\ (config_file = "empty" /\ args = ExampleList)
                     => text = <<"{", "q", "A", "q", ": ", "{",
                                      "q", "x", "q", ": ", "q", "h", "q", "}", ", ",
                                 "q", "B", "q", ": ", "{",
                                      "q", "y", "q", ": ", "2", ".", "2", "}", "}">>

\* a file with two services and overrides that add an attribute to the
\* second, then a new one to the first
C17_Witness ==
    /\ config_params # NoParams
    /\ config_file = "two"
    /\ Len(args) = 2
    /\ WellFormed(args[1]) /\ args[1].svc = "B" /\ args[1].attr = "y"
    /\ WellFormed(args[2]) /\ args[2].svc = "A" /\ args[2].attr = "x"
    /\ KeysIn(config_params.envs[1].value) = <<"A", "x", "y", "B", "x", "y">>

\* C19: with wait, the handle is returned only after a wait_until_ready
\* call, issued on the handle the create call produced, has returned 0; the
\* handle returned is that handle, as it was logged when it was created.
C19_ReadyOnlyFromRemote ==
    (wait /\ pc = "returned")
        => /\ Ops = <<"create", "wait_until_ready">>
           /\ retcode = 0
           /\ returned = deployment
           /\ returned # NoDeployment
           /\ spinner_log = <<Line("created", returned.name)>>
           /\ calls[2].name = returned.name

C19_Witness ==
    /\ wait
    /\ pc = "returned"
    /\ retcode = 0
    /\ returned = deployment
    /\ Last(calls).op = "wait_until_ready"

\* C20: the create call carries at most one environment variable; it
\* carries none exactly when the resolved configuration is empty, and
\* otherwise the one variable DYN_DEPLOYMENT_CONFIG holding the serialized
\* resolved configuration: {"A": {"x": 2}} for the file {"A": {"x": 1}}
\* with --A.x=2.
C20_SingleConfigVariable ==
    calls # <<>>
        => LET envs == calls[1].envs
           IN  /\ Len(envs) <= 1
               /\ envs = <<>> <=> service_configs = <<>>
               /\ envs # <<>>
                     => /\ envs[1].name = "DYN_DEPLOYMENT_CONFIG"
                        /\ envs[1].value = json_dumps(service_configs)
               /\ (config_file = "valid" /\ Len(args) = 1 /\ WellFormed(args[1]))
                     => envs[1].value = <<"{", "q", "A", "q", ": ", "{",
                                          "q", "x", "q", ": ", "2", "}", "}">>

C20_Witness ==
    /\ calls # <<>>
    /\ calls[1].op = "create"
    /\ config_file = "valid"
    /\ service_configs = <<Entry("A", "x", Value("int", <<"2">>))>>
    /\ Len(calls[1].envs) = 1

\* C21 (as claimed): once the create call has returned a handle, the run
\* never ends with the conflict message: an error of the readiness wait is
\* not reported as a name conflict.
C21_ConflictOnlyFromSubmitting ==
    deployment # NoDeployment => ~IsConflict

\* the operation that was called
Called == calls[1].op

\* C22: get, delete and list issue exactly one backend call; after a
\* BentoMLException of the backend the operation raises, returning and
\* logging nothing: the not-logged-in error when the message contains "No
\* cloud context default found", else the error with the login hint when
\* the code is UNAUTHORIZED, else "Failed to <action> deployment due to
\* invalid configuration" with the action of the operation called; an
\* exception of another class leaves the operation too; delete logs the
\* deletion only when the backend call returned.
C22_OpsErrorClassified ==
    Terminal =>
        /\ Len(calls) = 1
        /\ Called \in Actions
        /\ err # NoErr =>
              /\ pc = "raised"
              /\ raised = "BentoMLException"
              /\ returned = NoDeployment
              /\ spinner_log = <<>>
              /\ exc = IF \E i \in 1..Len(err.msg) : err.msg[i] = "NCC"
                       THEN Exc("not_logged_in", "", <<>>)
                       ELSE IF err.code = UNAUTHORIZED
                       THEN Exc("login_hint", "", err.msg)
                       ELSE Exc("invalid_configuration", Called, err.msg)
        /\ raised # "none" => (pc = "raised" /\ spinner_log = <<>>)
        /\ (Called = "delete" /\ spinner_log # <<>>)
              => (pc = "returned" /\ err = NoErr /\ raised = "none")

\* delete fails unauthorized with a message that names the missing context
C22_Witness ==
    /\ pc = "raised"
    /\ Called = "delete"
    /\ err.code = UNAUTHORIZED
    /\ NoCloudContextIn(err.msg)
    /\ exc = Exc("not_logged_in", "", <<>>)

====
